---- MODULE Spec2Model ----
(***************************************************************************)
(* Jewelry image generator: the table page's generation orchestrator       *)
(* (app/table/page.tsx), the /api/generate endpoint and the blob-store put *)
(* path (lib/uploadToS3.ts over lib/s3.ts).                                *)
(*                                                                         *)
(* The orchestrator runs on a single-threaded event loop.  Every action of *)
(* the model is one task of that loop: a user event handler, a timer, or   *)
(* the settlement of one network call together with every promise         *)
(* continuation (microtask) it triggers, the React state updaters queued   *)
(* by that task included.                                                  *)
(***************************************************************************)
EXTENDS Integers, Sequences, FiniteSets, TLC

VARIABLES
    images,          \* useState images: ids of the selected primary files
    references,      \* useState references: ids of the selected reference files
    isGenerating,    \* useState isGenerating
    results,         \* useState results: the GenerationResult aggregate
    progress,        \* useState progress: GenerationProgress or Null
    error,           \* useState error: a message or Null
    runs,            \* one closure of handleGenerate per invocation
    status,          \* every fetch issued so far -> "pending" | "ok" | "fail"
    queue,           \* the fetches in flight, oldest first
    posted,          \* the body of every POST /api/generate the runs issued
    timers,          \* runs whose setTimeout(.., 3000) has not fired yet
    budget,          \* what the environment may still do: calls it may
                     \* fail, deliveries it may delay, file events
    PUBLIC_URL,      \* process.env.R2_PUBLIC_URL
    apiKey,          \* process.env.GOOGLE_API_KEY || process.env.GEMINI_API_KEY
    bucket,          \* the objects held by the blob store
    fetched,         \* the URLs the blob-store client has fetched
    now,             \* Date.now()
    call,            \* the last uploadToS3 call: input, options, outcome
    request,         \* the body of the POST /api/generate being served
    post,            \* where its handler stands
    response,        \* the response of the handler, or Null
    geminiCalls,     \* the runGemini calls made for that request
    s3Calls,         \* the uploadToS3 calls made for that request
    selectedFile,    \* Home: useState selectedFile, a file or Null
    previewUrl,      \* Home: useState previewUrl, an object URL or Null
    objectUrls,      \* the object URLs created and not revoked
    created          \* how many object URLs Home has created

orchVars == <<images, references, isGenerating, results, progress, error,
              runs, status, posted, queue, timers, budget>>

storeVars == <<PUBLIC_URL, apiKey, bucket, fetched, now, call>>

postVars == <<request, post, response, geminiCalls, s3Calls>>

previewVars == <<selectedFile, previewUrl, objectUrls, created>>

vars == <<orchVars, storeVars, postVars, previewVars>>

----------------------------------------------------------------------------
(* Bounds of the exploration.                                              *)
MaxImages == 2
MaxRefs == 1
MaxRuns == 2
MaxFails == 3
MaxDelays == 2
MaxEvents == 1

(* The environments explored: one that fails calls, one that fails a call *)
(* and reorders a delivery, one that only reorders deliveries, one in      *)
(* which the user keeps selecting files.                                   *)
Budgets ==
    { [fails |-> MaxFails, delays |-> 0, events |-> 0],
      [fails |-> 1, delays |-> 1, events |-> 0],
      [fails |-> 0, delays |-> MaxDelays, events |-> 0],
      [fails |-> 1, delays |-> 0, events |-> MaxEvents] }

(* Program constants.                                                      *)
NumBackgrounds == 5
ShotsPerType == 3
modelTypes == <<"ear", "neck", "wrist">>

Null == [null |-> TRUE]
Undefined == [undefined |-> TRUE]
EmptyString == [run |-> 0, kind |-> "", idx |-> 0, type |-> "", shot |-> 0]

EmptyResults == [backgroundAssets |-> <<>>, objectResults |-> <<>>]

----------------------------------------------------------------------------
(* Network calls.  A call is named by the run that issued it and its place *)
(* in that run's plan; the URL a successful call returns is unique to the  *)
(* call, so the call's name stands for it.                                 *)

Call(r, k, i, t, s) == [run |-> r, kind |-> k, idx |-> i, type |-> t, shot |-> s]

UploadCall(r, role, i) == Call(r, "upload", i, role, 0)
BackgroundCall(r, i) == Call(r, "background", i, "", 0)
StudioCall(r, obj) == Call(r, "studio", obj, "", 0)
ShotCall(r, obj, t, s) == Call(r, "model", obj, t, s)

Outcome(c) == IF c \in DOMAIN status THEN status[c] ELSE "none"

Range(s) == {s[i] : i \in 1..Len(s)}

RECURSIVE Filter(_, _)
(* seq.filter(x => x \in keep), order kept.                                *)
Filter(seq, keep) ==
    IF seq = <<>> THEN <<>>
    ELSE IF Head(seq) \in keep
         THEN <<Head(seq)>> \o Filter(Tail(seq), keep)
         ELSE Filter(Tail(seq), keep)

RECURSIVE Flatten(_)
Flatten(ss) == IF ss = <<>> THEN <<>> ELSE Head(ss) \o Flatten(Tail(ss))

Succeeded == {c \in DOMAIN status : status[c] = "ok"}

----------------------------------------------------------------------------
(* The closure of one handleGenerate invocation.                           *)

totalSteps(imageCount) == 1 + 5 + (imageCount * 10)

(* updateProgress with completedSteps = increment in place of += increment *)
updateProgressAssigning(run, stage, increment) ==
    [run |-> [run EXCEPT !.completedSteps = increment],
     progress |-> [stage |-> stage,
                   currentStep |-> increment,
                   totalSteps |-> run.totalSteps]]

(* updateProgress(stage, message, increment): adds to the closure's        *)
(* completedSteps and publishes the new value.                             *)
updateProgress(run, stage, increment) ==
    LET completedSteps == run.completedSteps + increment
    IN  [run |-> [run EXCEPT !.completedSteps = completedSteps],
         progress |-> [stage |-> stage,
                       currentStep |-> completedSteps,
                       totalSteps |-> run.totalSteps]]

(* uploadFiles(files): one upload per file, results in the order of files. *)
uploadFiles(r, role, count) == [i \in 1..count |-> UploadCall(r, role, i)]

imageUrls(r) == uploadFiles(r, "image", runs[r].nImages)
referenceUrls(r) == uploadFiles(r, "reference", runs[r].nReferences)

backgroundPromises(r) == [i \in 1..NumBackgrounds |-> BackgroundCall(r, i)]

(* backgroundAssets without the filter(url => url !== null)                *)
backgroundAssetsUnfiltered(st, r) == backgroundPromises(r)

(* const backgroundAssets: the non-null results of the background promises *)
(* in the order of the prompts.                                            *)
backgroundAssets(st, r) ==
    Filter(backgroundPromises(r), {c \in DOMAIN st : st[c] = "ok"})

(* Style references read from the aggregate on display, which holds the    *)
(* background assets in the order in which their calls were answered.      *)
styleReferencesAsAnswered(st, r) ==
    SubSeq(results.backgroundAssets, 1,
           IF Len(results.backgroundAssets) < 2
           THEN Len(results.backgroundAssets) ELSE 2)

(* backgroundAssets.slice(0, 2)                                            *)
styleReferences(st, r) ==
    SubSeq(backgroundAssets(st, r), 1,
           IF Len(backgroundAssets(st, r)) < 2
           THEN Len(backgroundAssets(st, r)) ELSE 2)

(* The image fields of the bodies JSON.stringify'd into the requests to    *)
(* /api/generate.  The request of a background call has no references.     *)
backgroundRequest(r) ==
    [urls |-> IF Len(referenceUrls(r)) > 0 THEN referenceUrls(r)
              ELSE SubSeq(imageUrls(r), 1, 1),
     type |-> "background"]

studioRequest(st, r, obj) ==
    [urls |-> <<imageUrls(r)[obj]>>,
     references |-> styleReferences(st, r),
     type |-> "studio"]

(* A model-shot request that lists the user's references first.            *)
modelRequestReferencesFirst(st, r, obj) ==
    [urls |-> <<imageUrls(r)[obj]>>,
     references |-> referenceUrls(r) \o styleReferences(st, r),
     type |-> "model"]

modelRequest(st, r, obj) ==
    [urls |-> <<imageUrls(r)[obj]>>,
     references |-> styleReferences(st, r) \o referenceUrls(r),
     type |-> "model"]

Requests(st, calls) ==
    [c \in {calls[k] : k \in 1..Len(calls)} |->
        IF c.kind = "background" THEN backgroundRequest(c.run)
        ELSE IF c.kind = "studio" THEN studioRequest(st, c.run, c.idx)
        ELSE modelRequest(st, c.run, c.idx)]

(* The requests whose promises are still reachable.                        *)
Kept(reqs, st) == [c \in DOMAIN reqs \cap DOMAIN st |-> reqs[c]]

shotPromises(r, obj, t) == [s \in 1..ShotsPerType |-> ShotCall(r, obj, t, s)]

ObjectCalls(r, obj) ==
    <<StudioCall(r, obj)>>
    \o Flatten([k \in 1..Len(modelTypes) |-> shotPromises(r, obj, modelTypes[k])])

Settled(st, c) == c \in DOMAIN st /\ st[c] \in {"ok", "fail"}

(* A barrier that opens at the first call to settle.                       *)
AnySettled(st, calls) == \E k \in 1..Len(calls) : Settled(st, calls[k])

(* await Promise.all(calls) has returned: every call has settled.          *)
AllSettled(st, calls) == \A k \in 1..Len(calls) : Settled(st, calls[k])

(* A model promise resolves once its three shots have settled: to          *)
(* {type, images} when a shot succeeded, to null otherwise.                *)
shotImages(st, r, obj, t) ==
    Filter(shotPromises(r, obj, t), {c \in DOMAIN st : st[c] = "ok"})

(* A model promise that resolves at the first of its shots to settle.      *)
modelResolvedEarly(st, r, obj, t) == AnySettled(st, shotPromises(r, obj, t))

modelResolved(st, r, obj, t) == AllSettled(st, shotPromises(r, obj, t))

modelShot(st, r, obj, t) == [type |-> t, images |-> shotImages(st, r, obj, t)]

(* modelResults.filter(ms => ms !== null)                                  *)
modelResults(st, r, obj) ==
    LET RECURSIVE nonNull(_)
        nonNull(k) ==
            IF k > Len(modelTypes) THEN <<>>
            ELSE IF shotImages(st, r, obj, modelTypes[k]) # <<>>
                 THEN <<modelShot(st, r, obj, modelTypes[k])>> \o nonNull(k + 1)
                 ELSE nonNull(k + 1)
    IN  nonNull(1)

(* The promise of objectPromises for one image: rejected studio call ->    *)
(* the catch returns null at once; otherwise the await Promise.all waits   *)
(* for the studio call and the three model promises.                       *)
objectPromise(st, r, obj) ==
    IF StudioCall(r, obj) \in DOMAIN st /\ st[StudioCall(r, obj)] = "fail"
        THEN "null"
    ELSE IF /\ StudioCall(r, obj) \in DOMAIN st
            /\ st[StudioCall(r, obj)] = "ok"
            /\ \A k \in 1..Len(modelTypes) : modelResolved(st, r, obj, modelTypes[k])
        THEN "resolved"
    ELSE "pending"

(* The objectResult local once the awaits of the object have returned.     *)
objectResult(st, r, obj) ==
    [studioView |-> StudioCall(r, obj), modelShots |-> modelResults(st, r, obj)]

(* (await Promise.all(objectPromises)).filter(result => result !== null)   *)
objectResults(st, r) ==
    LET RECURSIVE kept(_)
        kept(obj) ==
            IF obj > runs[r].nImages THEN <<>>
            ELSE IF objectPromise(st, r, obj) = "resolved"
                 THEN <<objectResult(st, r, obj)>> \o kept(obj + 1)
                 ELSE kept(obj + 1)
    IN  kept(1)

objectsSettled(st, r) ==
    \A obj \in 1..runs[r].nImages : objectPromise(st, r, obj) # "pending"

----------------------------------------------------------------------------
(* The updaters handed to setResults.                                      *)

(* newResults[objIndex] = value on a copy of the array: positions skipped  *)
(* by the assignment read back as undefined.                               *)
SetIndex(arr, k, value) ==
    [j \in 1..(IF k > Len(arr) THEN k ELSE Len(arr)) |->
        IF j = k THEN value
        ELSE IF j <= Len(arr) THEN arr[j]
        ELSE Undefined]

backgroundMerge(prev, url) ==
    [prev EXCEPT !.backgroundAssets = Append(@, url)]

studioMerge(prev, obj, objResult) ==
    [prev EXCEPT !.objectResults = SetIndex(@, obj, objResult)]

findIndex(shots, t) ==
    IF \E k \in 1..Len(shots) : shots[k].type = t
    THEN CHOOSE k \in 1..Len(shots) :
            shots[k].type = t /\ \A j \in 1..(k - 1) : shots[j].type # t
    ELSE 0

(* A category merge that pushes without looking for the category.          *)
categoryMergePushing(prev, obj, shot) ==
    LET present ==
            IF obj <= Len(prev.objectResults) /\ prev.objectResults[obj] # Undefined
            THEN prev.objectResults[obj]
            ELSE [studioView |-> EmptyString, modelShots |-> <<>>]
    IN  [prev EXCEPT !.objectResults =
            SetIndex(@, obj, [present EXCEPT !.modelShots = Append(@, shot)])]

categoryMerge(prev, obj, shot) ==
    LET current ==
            IF obj <= Len(prev.objectResults) /\ prev.objectResults[obj] # Undefined
            THEN prev.objectResults[obj]
            ELSE [studioView |-> EmptyString, modelShots |-> <<>>]
        existingTypeIndex == findIndex(current.modelShots, shot.type)
        shots ==
            IF existingTypeIndex >= 1
            THEN [current.modelShots EXCEPT ![existingTypeIndex] = shot]
            ELSE Append(current.modelShots, shot)
    IN  [prev EXCEPT !.objectResults =
            SetIndex(@, obj, [current EXCEPT !.modelShots = shots])]

----------------------------------------------------------------------------
(* The network.  Calls are delivered in launch order unless the network    *)
(* delays the oldest one behind the others; a call succeeds or fails.      *)

Launch(st, calls) == [c \in Range(calls) |-> "pending"] @@ st

CanSettle(c, o) ==
    /\ queue # <<>>
    /\ c = Head(queue)
    /\ o \in {"ok", "fail"}
    /\ o = "fail" => budget.fails > 0

Spend(o) == IF o = "fail" THEN [budget EXCEPT !.fails = @ - 1] ELSE budget

Delay ==
    /\ Len(queue) >= 2
    /\ budget.delays > 0
    /\ queue' = Append(Tail(queue), Head(queue))
    /\ budget' = [budget EXCEPT !.delays = @ - 1]
    /\ UNCHANGED <<images, references, isGenerating, results, progress,
                   error, runs, status, posted, timers>>
    /\ UNCHANGED <<storeVars, postVars, previewVars>>

----------------------------------------------------------------------------
(* User events.                                                            *)

FileIds == 1..(MaxImages + MaxRefs)

NewId == CHOOSE id \in FileIds :
            /\ id \notin Range(images) \cup Range(references)
            /\ \A j \in FileIds :
                  j \notin Range(images) \cup Range(references) => id <= j

(* URL.createObjectURL gives every file its own object URL: the preview of *)
(* the file with id n of the table page, the n-th preview made by Home.    *)
TablePreview(id) == [page |-> "table", n |-> id]
HomePreview(n) == [page |-> "home", n |-> n]

(* handleFiles with one image file in the FileList.                        *)
handleFiles(type) ==
    /\ budget.events > 0
    /\ budget' = [budget EXCEPT !.events = @ - 1]
    /\ type = "image" => Len(images) < MaxImages
    /\ type = "reference" => Len(references) < MaxRefs
    /\ images' = IF type = "image" THEN Append(images, NewId) ELSE images
    /\ references' = IF type = "image" THEN references ELSE Append(references, NewId)
    /\ error' = Null
    /\ results' = EmptyResults
    /\ objectUrls' = objectUrls \cup {TablePreview(NewId)}
    /\ UNCHANGED <<isGenerating, progress, runs, status, posted, queue, timers>>
    /\ UNCHANGED <<storeVars, postVars, selectedFile, previewUrl, created>>

removeFile(id, type) ==
    /\ budget.events > 0
    /\ budget' = [budget EXCEPT !.events = @ - 1]
    /\ type = "image" => id \in Range(images)
    /\ type = "reference" => id \in Range(references)
    /\ images' = IF type = "image" THEN Filter(images, Range(images) \ {id})
                 ELSE images
    /\ references' = IF type = "image" THEN references
                     ELSE Filter(references, Range(references) \ {id})
    /\ objectUrls' = objectUrls \ {TablePreview(id)}
    /\ UNCHANGED <<isGenerating, results, progress, error, runs, status, posted,
                   queue, timers>>
    /\ UNCHANGED <<storeVars, postVars, selectedFile, previewUrl, created>>

----------------------------------------------------------------------------
(* handleGenerate, up to its first await.  The Generate button is disabled *)
(* while isGenerating or with no image selected.                           *)
handleGenerate ==
    /\ ~isGenerating
    /\ Len(images) > 0
    /\ Len(runs) < MaxRuns
    /\ LET r == Len(runs) + 1
           closure == [pc |-> "uploading",
                       nImages |-> Len(images),
                       nReferences |-> Len(references),
                       completedSteps |-> 0,
                       totalSteps |-> totalSteps(Len(images))]
           up == updateProgress(closure, "Uploading", 0)
           calls == uploadFiles(r, "image", Len(images))
                    \o uploadFiles(r, "reference", Len(references))
       IN  /\ isGenerating' = TRUE
           /\ error' = Null
           /\ results' = EmptyResults
           /\ runs' = Append(runs, up.run)
           /\ progress' = up.progress
           /\ status' = Launch(status, calls)
           /\ queue' = queue \o calls
    /\ UNCHANGED <<images, references, posted, timers, budget>>
    /\ UNCHANGED <<storeVars, postVars, previewVars>>

(* A closure and the promises of its calls are unreachable once the run    *)
(* has ended and none of its calls is in flight.                           *)
Finished(rs, q, r) ==
    /\ rs[r].pc \in {"done", "aborted"}
    /\ \A k \in 1..Len(q) : q[k].run # r

Released(rs, q) ==
    [r \in 1..Len(rs) |->
        IF Finished(rs, q, r)
        THEN [pc |-> rs[r].pc, nImages |-> 0, nReferences |-> 0,
              completedSteps |-> 0, totalSteps |-> 0]
        ELSE rs[r]]

Reachable(st, rs, q) ==
    [c \in {d \in DOMAIN st : ~Finished(rs, q, d.run)} |-> st[c]]

(* An upload settles.  A failed one rejects the Promise.all of the upload  *)
(* stage: catch and finally run.  The last successful one lets the run     *)
(* continue to the launch of the five background calls.  Uploads that      *)
(* settle after the rejection have nothing left to resume.                 *)
UploadSettles(c, o) ==
    /\ CanSettle(c, o)
    /\ c.kind = "upload"
    /\ LET r == c.run
           st == [status EXCEPT ![c] = o]
           p1 == updateProgress(runs[r], "Preparing", 1)
           p2 == updateProgress(p1.run, "Background Analysis", 1)
           rejected == runs[r].pc = "uploading" /\ o = "fail"
           resumed == /\ runs[r].pc = "uploading"
                      /\ o = "ok"
                      /\ AllSettled(st, imageUrls(r) \o referenceUrls(r))
           q == IF resumed THEN Tail(queue) \o backgroundPromises(r)
                ELSE Tail(queue)
           rs == IF rejected THEN [runs EXCEPT ![r].pc = "aborted"]
                 ELSE IF resumed
                 THEN [runs EXCEPT ![r] = [p2.run EXCEPT !.pc = "backgrounds"]]
                 ELSE runs
       IN  /\ budget' = Spend(o)
           /\ queue' = q
           /\ runs' = Released(rs, q)
           /\ status' = Reachable(IF resumed THEN Launch(st, backgroundPromises(r))
                                  ELSE st, rs, q)
           /\ posted' = Kept(IF resumed
                             THEN Requests(st, backgroundPromises(r)) @@ posted
                             ELSE posted, status')
           /\ error' = IF rejected THEN [message |-> "Failed to upload"] ELSE error
           /\ progress' = IF rejected THEN Null
                          ELSE IF resumed THEN p2.progress
                          ELSE progress
           /\ isGenerating' = IF rejected THEN FALSE ELSE isGenerating
    /\ UNCHANGED <<images, references, results, timers>>
    /\ UNCHANGED <<storeVars, postVars, previewVars>>

(* A background call settles.  The fifth to settle passes the barrier and  *)
(* launches, for each image in order, the studio call and the nine shots.  *)
BackgroundSettles(c, o) ==
    /\ CanSettle(c, o)
    /\ c.kind = "background"
    /\ LET r == c.run
           st == [status EXCEPT ![c] = o]
           up == IF o = "ok" THEN updateProgress(runs[r], "Backgrounds", 1)
                 ELSE [run |-> runs[r], progress |-> progress]
           p2 == updateProgress(up.run, "Object Processing", 1)
           calls == Flatten([obj \in 1..runs[r].nImages |-> ObjectCalls(r, obj)])
           resumed == AllSettled(st, backgroundPromises(r))
       IN  /\ budget' = Spend(o)
           /\ results' = IF o = "ok" THEN backgroundMerge(results, c) ELSE results
           /\ queue' = IF resumed THEN Tail(queue) \o calls ELSE Tail(queue)
           /\ runs' = IF resumed
                      THEN [runs EXCEPT ![r] = [p2.run EXCEPT !.pc = "objects"]]
                      ELSE [runs EXCEPT ![r] = up.run]
           /\ progress' = IF resumed THEN p2.progress ELSE up.progress
           /\ status' = IF resumed THEN Launch(st, calls) ELSE st
           /\ posted' = IF resumed THEN Requests(st, calls) @@ posted ELSE posted
    /\ UNCHANGED <<images, references, isGenerating, error, timers>>
    /\ UNCHANGED <<storeVars, postVars, previewVars>>

(* A final setResults that appends to what the merges have written.        *)
finalResultsAppending(st, r, prev) ==
    [backgroundAssets |-> prev.backgroundAssets \o backgroundAssets(st, r),
     objectResults |-> objectResults(st, r)]

(* The value of the final setResults({backgroundAssets, objectResults}).   *)
finalResults(st, r, prev) ==
    [backgroundAssets |-> backgroundAssets(st, r),
     objectResults |-> objectResults(st, r)]

(* What follows the callbacks of a studio or model-shot call.  When this   *)
(* was the last object promise to settle, the run passes the barrier of    *)
(* the object stage: the final setResults, the 'Complete' progress, the    *)
(* timer and the finally block.  Otherwise the state is what the call's    *)
(* own callbacks wrote.                                                    *)
AfterObjectCall(r, st, q, up, merged) ==
    LET last == runs[r].pc = "objects" /\ objectsSettled(st, r)
        done == updateProgress(up.run, "Complete", 0)
        rs == IF last THEN [runs EXCEPT ![r] = [done.run EXCEPT !.pc = "done"]]
              ELSE [runs EXCEPT ![r] = up.run]
    IN  /\ results' = IF last THEN finalResults(st, r, merged) ELSE merged
        /\ progress' = IF last THEN done.progress ELSE up.progress
        /\ timers' = IF last THEN timers \cup {r} ELSE timers
        /\ isGenerating' = IF last THEN FALSE ELSE isGenerating
        /\ queue' = q
        /\ runs' = Released(rs, q)
        /\ status' = Reachable(st, rs, q)
        /\ posted' = Kept(posted, status')

(* The studio call of one image settles.  On success its then-callback     *)
(* publishes progress and queues the updater that stores a copy of         *)
(* objectResult; the updater runs when React renders, after the promise    *)
(* continuations of this task, so it sees the modelShots assigned by the   *)
(* object's own continuation when the studio call was the object's last.   *)
(* On failure the rejection reaches the object's catch, which returns      *)
(* null while the shots are still in flight.                               *)
studioMerged(st, c, o) ==
    LET copy == [studioView |-> c,
                 modelShots |-> IF objectPromise(st, c.run, c.idx) = "resolved"
                                THEN modelResults(st, c.run, c.idx) ELSE <<>>]
    IN  IF o = "ok" THEN studioMerge(results, c.idx, copy) ELSE results

StudioSettles(c, o) ==
    /\ CanSettle(c, o)
    /\ c.kind = "studio"
    /\ LET r == c.run
           st == [status EXCEPT ![c] = o]
           up == IF o = "ok" THEN updateProgress(runs[r], "Studio Photography", 1)
                 ELSE [run |-> runs[r], progress |-> progress]
           merged == studioMerged(st, c, o)
       IN  /\ budget' = Spend(o)
           /\ AfterObjectCall(r, st, Tail(queue), up, merged)
    /\ UNCHANGED <<images, references, error>>
    /\ UNCHANGED <<storeVars, postVars, previewVars>>

(* One model shot settles.  Its category is merged when this was the last  *)
(* of the category's three shots and at least one of them succeeded.       *)
shotMerged(st, c) ==
    IF /\ modelResolved(st, c.run, c.idx, c.type)
       /\ shotImages(st, c.run, c.idx, c.type) # <<>>
    THEN categoryMerge(results, c.idx, modelShot(st, c.run, c.idx, c.type))
    ELSE results

ShotSettles(c, o) ==
    /\ CanSettle(c, o)
    /\ c.kind = "model"
    /\ LET r == c.run
           st == [status EXCEPT ![c] = o]
           up == IF o = "ok" THEN updateProgress(runs[r], "Model Photography", 1)
                 ELSE [run |-> runs[r], progress |-> progress]
           merged == shotMerged(st, c)
       IN  /\ budget' = Spend(o)
           /\ AfterObjectCall(r, st, Tail(queue), up, merged)
    /\ UNCHANGED <<images, references, error>>
    /\ UNCHANGED <<storeVars, postVars, previewVars>>

(* The callback of setTimeout(() => setProgress(null), 3000).              *)
TimerFires(r) ==
    /\ r \in timers
    /\ timers' = timers \ {r}
    /\ progress' = Null
    /\ UNCHANGED <<images, references, isGenerating, results, error, runs,
                   status, posted, queue, budget>>
    /\ UNCHANGED <<storeVars, postVars, previewVars>>

----------------------------------------------------------------------------
(* JavaScript values of the server side.  A string is the sequence of the *)
(* pieces it was put together from, so that concatenation, startsWith,     *)
(* includes and split work on it as they do on the characters.             *)

JsUndefined == [t |-> "undefined"]
JsNull == [t |-> "null"]
Str(pieces) == [t |-> "string", s |-> pieces]
Arr(items) == [t |-> "array", a |-> items]
Buf(bytes) == [t |-> "buffer", b |-> bytes]
FileOf(type, bytes) == [t |-> "file", type |-> type, b |-> bytes]
JsError(message) == [t |-> "error", message |-> message]

IsString(v) == v.t = "string"
IsArray(v) == v.t = "array"

(* !v *)
Falsy(v) == v.t \in {"undefined", "null"} \/ (v.t = "string" /\ v.s = <<>>)

(* String(v) as used by template literals and String.prototype.includes.   *)
ToStr(v) == IF v.t = "string" THEN v.s ELSE <<"undefined">>

includes(s, sub) ==
    \E i \in 0..(Len(s) - Len(sub)) : SubSeq(s, i + 1, i + Len(sub)) = sub

startsWith(s, piece) == Len(s) >= 1 /\ s[1] = piece

ConfiguredUrl == Str(<<"http", "s://", "pub.r2.dev">>)

----------------------------------------------------------------------------
(* lib/s3.ts                                                               *)

typeMap ==
    [type \in {"image/jpeg", "image/jpg", "image/png", "image/webp", "image/gif",
               "image/bmp", "image/tiff", "image/svg+xml", "video/mp4",
               "video/webm", "video/avi", "video/mov", "text/plain",
               "application/pdf", "application/json"} |->
        CASE type \in {"image/jpeg", "image/jpg"} -> ".jpg"
          [] type = "image/png" -> ".png"
          [] type = "image/webp" -> ".webp"
          [] type = "image/gif" -> ".gif"
          [] type = "image/bmp" -> ".bmp"
          [] type = "image/tiff" -> ".tiff"
          [] type = "image/svg+xml" -> ".svg"
          [] type = "video/mp4" -> ".mp4"
          [] type = "video/webm" -> ".webm"
          [] type = "video/avi" -> ".avi"
          [] type = "video/mov" -> ".mov"
          [] type = "text/plain" -> ".txt"
          [] type = "application/pdf" -> ".pdf"
          [] type = "application/json" -> ".json"]

toLowerCase(piece) ==
    CASE piece = "IMAGE/PNG" -> "image/png"
      [] piece = "Image/Jpeg" -> "image/jpeg"
      [] OTHER -> piece

(* The lookup with '.jpg', the extension of the default content type, for  *)
(* a type the table does not hold.                                         *)
getExtensionDefaultingToJpg(contentType) ==
    IF Len(contentType) = 1 /\ toLowerCase(contentType[1]) \in DOMAIN typeMap
    THEN <<typeMap[toLowerCase(contentType[1])]>>
    ELSE <<".jpg">>

(* typeMap[contentType.toLowerCase()] || ''; the content type is one piece *)
getExtensionFromContentType(contentType) ==
    IF Len(contentType) = 1 /\ toLowerCase(contentType[1]) \in DOMAIN typeMap
    THEN <<typeMap[toLowerCase(contentType[1])]>>
    ELSE <<>>

(* What the store and the network answer to one call: whether the fetch of *)
(* a remote URL is 2xx, whether the put succeeds, and Math.random().       *)
Answers == [fetchOk : BOOLEAN, putOk : BOOLEAN, random : {"k3f9"}]

(* uploadToS3 of lib/s3.ts on the store b.  The outcome is the public URL  *)
(* or the Error thrown by the catch block.                                 *)
uploadToS3Lib(input, options, b, f, answer) ==
    LET folder == IF options.folder = JsUndefined THEN Str(<<"default">>)
                  ELSE options.folder
        contentType == IF options.contentType = JsUndefined
                       THEN Str(<<"image/jpeg">>) ELSE options.contentType
        remote == IsString(input) /\ startsWith(input.s, "http")
        supported == remote \/ input.t = "buffer"
        buffer == IF remote THEN <<"bytes of">> \o input.s ELSE input.b
        filename == <<ToString(now), "-", answer.random>>
                    \o getExtensionFromContentType(contentType.s)
        key == IF ~Falsy(folder) THEN folder.s \o <<"/">> \o filename
               ELSE filename
        failed == \/ ~supported
                  \/ remote /\ ~answer.fetchOk
                  \/ ~answer.putOk
        message ==
            IF ~supported
            THEN "S3 upload failed: Unsupported input type. Must be a valid URL, Buffer, or stream."
            ELSE IF remote /\ ~answer.fetchOk
                 THEN "S3 upload failed: Failed to fetch image"
                 ELSE "S3 upload failed: put rejected"
    IN  [result |-> IF failed THEN JsError(message)
                    ELSE Str(ToStr(PUBLIC_URL) \o <<"/">> \o key),
         bucket |-> IF failed THEN b
                    ELSE {o \in b : o.key # key}
                         \cup {[key |-> key, body |-> buffer,
                                contentType |-> contentType.s]},
         fetched |-> IF remote THEN f \cup {input.s} ELSE f]

----------------------------------------------------------------------------
(* lib/uploadToS3.ts                                                       *)

DataUrl(mime, payload) == Str(<<"data:">> \o mime \o <<";base64,", payload>>)

(* input.split(',')[1]: what follows the first comma.                      *)
base64Data(s) ==
    IF \E k \in 1..Len(s) : s[k] = ";base64,"
    THEN SubSeq(s, 1 + CHOOSE k \in 1..Len(s) : s[k] = ";base64,", Len(s))
    ELSE <<>>

(* Buffer.from(data, 'base64')                                             *)
fromBase64(data) ==
    [k \in 1..Len(data) |->
        CASE data[k] = "iVBORw==" -> "PNG bytes"
          [] data[k] = "/9j/4A==" -> "JPEG bytes"
          [] OTHER -> "bytes"]

(* input.match(/^data:([^;]+)/): the group, or no match.                   *)
dataUrlMatch(s) ==
    IF Len(s) >= 2 /\ s[1] = "data:" /\ s[2] # ";base64,"
    THEN Str(<<s[2]>>) ELSE JsUndefined

(* The short circuit with input === PUBLIC_URL                             *)
alreadyPublicExact(input) == IsString(input) /\ input.s = ToStr(PUBLIC_URL)

(* typeof input === 'string' && input.includes(PUBLIC_URL)                 *)
alreadyPublic(input) == IsString(input) /\ includes(input.s, ToStr(PUBLIC_URL))

(* uploadToS3 taking the content type of a data URL before the one it was  *)
(* given.                                                                  *)
uploadToS3PreferringPrefix(input, options, b, f, answer) ==
    IF alreadyPublic(input)
    THEN [result |-> input, bucket |-> b, fetched |-> f]
    ELSE
    LET dataInput == IsString(input) /\ startsWith(input.s, "data:")
        httpInput == IsString(input) /\ ~dataInput /\ startsWith(input.s, "http")
        detected ==
            IF dataInput /\ dataUrlMatch(input.s) # JsUndefined
                 THEN dataUrlMatch(input.s)
            ELSE IF ~Falsy(options.contentType) THEN options.contentType
            ELSE IF input.t = "file" /\ ~Falsy(input.type) THEN input.type
            ELSE options.contentType
        enhanced ==
            IF ~Falsy(detected)
            THEN [options EXCEPT !.contentType = detected]
            ELSE options
        bytes ==
            IF input.t = "file" THEN Buf(input.b)
            ELSE IF input.t = "buffer" THEN input
            ELSE IF dataInput THEN Buf(fromBase64(base64Data(input.s)))
            ELSE input
        stored == uploadToS3Lib(bytes, enhanced, b, f, answer)
    IN  IF input.t \in {"file", "buffer"} \/ dataInput \/ httpInput
        THEN IF ~httpInput /\ Falsy(stored.result)
             THEN [stored EXCEPT !.result = JsError("S3 upload returned no URL")]
             ELSE stored
        ELSE [result |-> JsError(IF IsString(input)
                                 THEN "Invalid string input. Must be a data URL or HTTP URL"
                                 ELSE "Invalid input type. Must be File, Buffer, or string"),
              bucket |-> b, fetched |-> f]

(* uploadToS3(input, options) of lib/uploadToS3.ts.                        *)
uploadToS3(input, options, b, f, answer) ==
    IF alreadyPublic(input)
    THEN [result |-> input, bucket |-> b, fetched |-> f]
    ELSE
    LET isData == IsString(input) /\ startsWith(input.s, "data:")
        isHttp == IsString(input) /\ ~isData /\ startsWith(input.s, "http")
        detectedContentType ==
            IF ~Falsy(options.contentType) THEN options.contentType
            ELSE IF input.t = "file" /\ ~Falsy(input.type) THEN input.type
            ELSE IF isData /\ dataUrlMatch(input.s) # JsUndefined
                 THEN dataUrlMatch(input.s)
            ELSE options.contentType
        enhancedOptions ==
            IF ~Falsy(detectedContentType)
            THEN [options EXCEPT !.contentType = detectedContentType]
            ELSE options
        buffer ==
            IF input.t = "file" THEN Buf(input.b)
            ELSE IF input.t = "buffer" THEN input
            ELSE IF isData THEN Buf(fromBase64(base64Data(input.s)))
            ELSE input
        put == uploadToS3Lib(buffer, enhancedOptions, b, f, answer)
    IN  IF input.t \in {"file", "buffer"} \/ isData \/ isHttp
        THEN IF ~isHttp /\ Falsy(put.result)
             THEN [put EXCEPT !.result = JsError("S3 upload returned no URL")]
             ELSE put
        ELSE [result |-> JsError(IF IsString(input)
                                 THEN "Invalid string input. Must be a data URL or HTTP URL"
                                 ELSE "Invalid input type. Must be File, Buffer, or string"),
              bucket |-> b, fetched |-> f]

PublicUrls == {Str(ToStr(PUBLIC_URL) \o <<"/">> \o o.key) : o \in bucket}

MaxPuts == 2

UploadInputs ==
    { FileOf(Str(<<"image/png">>), <<"file bytes">>),
      FileOf(Str(<<"image/heic">>), <<"file bytes">>),
      FileOf(Str(<<>>), <<"file bytes">>),
      Buf(<<"raw bytes">>),
      DataUrl(<<"image/jpeg">>, "/9j/4A=="),
      DataUrl(<<>>, "iVBORw=="),
      Str(<<"http", "s://", "elsewhere.example", "/", "ring.png">>),
      Str(<<"ftp://", "elsewhere.example">>) }

UploadOptions ==
    [folder : {JsUndefined, Str(<<"uploads">>)},
     contentType : {JsUndefined, Str(<<"image/png">>), Str(<<>>)}]

(* One call of uploadToS3, by a route or with a URL an earlier call        *)
(* returned.                                                               *)
Upload(input, options, answer) ==
    /\ now <= MaxPuts
    /\ LET out == uploadToS3(input, options, bucket, fetched, answer)
       IN  /\ bucket' = out.bucket
           /\ fetched' = out.fetched
           /\ call' = [input |-> input, options |-> options, result |-> out.result]
    /\ now' = now + 1
    /\ UNCHANGED <<PUBLIC_URL, apiKey, orchVars, postVars, previewVars>>

----------------------------------------------------------------------------
(* lib/generate_image.ts                                                   *)

Last(seq) == seq[Len(seq)]

maxImages == 3
maxBytes == 7 * 1024 * 1024

(* /^https?:\/\//i.test(val) on a string value                             *)
maybePush(val) ==
    IsString(val) /\ Len(val.s) >= 2 /\ val.s[1] = "http"
                  /\ val.s[2] \in {"://", "s://"}

(* Array.from(new Set(urls)): first occurrences, in order.                 *)
RECURSIVE Distinct(_)
Distinct(seq) ==
    IF seq = <<>> THEN <<>>
    ELSE LET front == Distinct(SubSeq(seq, 1, Len(seq) - 1))
         IN  IF Last(seq) \in Range(front) THEN front
             ELSE Append(front, Last(seq))

extractImageUrlsFromInput(input) ==
    IF IsArray(input.images)
    THEN Distinct(Filter(input.images.a,
                         {val \in Range(input.images.a) : maybePush(val)}))
    ELSE <<>>

(* What a fetch of a candidate image answers.                              *)
FetchReplies ==
    { [ok |-> FALSE, type |-> "image/png", length |-> 0, throws |-> FALSE],
      [ok |-> TRUE, type |-> "image/png", length |-> 0, throws |-> TRUE],
      [ok |-> TRUE, type |-> "image/png", length |-> 1024, throws |-> FALSE],
      [ok |-> TRUE, type |-> "", length |-> 0, throws |-> FALSE],
      [ok |-> TRUE, type |-> "image/gif", length |-> 1024, throws |-> FALSE],
      [ok |-> TRUE, type |-> "image/jpeg", length |-> maxBytes + 1, throws |-> FALSE] }

allowed == {"image/png", "image/jpeg", "image/webp"}

(* The inlineData parts of the loop over imageUrls, net being the answer   *)
(* to each fetch.                                                          *)
RECURSIVE inlineParts(_, _)
inlineParts(urls, net) ==
    IF urls = <<>> THEN <<>>
    ELSE LET res == net[Head(urls)]
             contentType == IF res.type = "" THEN "image/png" ELSE res.type
             skipped == \/ res.throws
                        \/ ~res.ok
                        \/ contentType \notin allowed
                        \/ res.length > maxBytes
         IN  (IF skipped THEN <<>>
              ELSE <<[inlineData |-> [mimeType |-> contentType,
                                      data |-> <<"base64 of">> \o Head(urls).s]]>>)
             \o inlineParts(Tail(urls), net)

(* What generateContent answers: the parts of the first candidate and its  *)
(* finish reason, or a rejection.                                          *)
TextPart == [text |-> "here is your image"]
ImagePart(mime, data) == [inlineData |-> [mimeType |-> mime, data |-> data]]

GeminiReplies ==
    { [throws |-> TRUE, parts |-> <<>>, finishReason |-> ""],
      [throws |-> FALSE, parts |-> <<>>, finishReason |-> ""],
      [throws |-> FALSE, parts |-> <<>>, finishReason |-> "SAFETY"],
      [throws |-> FALSE, parts |-> <<TextPart>>, finishReason |-> "STOP"],
      [throws |-> FALSE, parts |-> <<ImagePart("image/png", "iVBORw==")>>,
       finishReason |-> "STOP"],
      [throws |-> FALSE,
       parts |-> <<TextPart, ImagePart("image/jpeg", "/9j/4A=="),
                   ImagePart("image/png", "iVBORw==")>>,
       finishReason |-> "MAX_TOKENS"] }

(* The checks runGemini makes before its first await: the Error thrown, or *)
(* Null.                                                                   *)
runGeminiGuard(input) ==
    IF Falsy(input.prompt) THEN JsError("Prompt is required")
    ELSE IF Falsy(apiKey) THEN JsError("Google API key is not configured")
    ELSE Null

(* (await extractImageUrlsFromInput(input)).slice(0, 3)                    *)
slice(seq, first, end) ==
    SubSeq(seq, first + 1, IF Len(seq) < end THEN Len(seq) ELSE end)

(* The candidates without the cut at three.                                *)
candidateUrlsUncut(input) == extractImageUrlsFromInput(input)

candidateUrls(input) == slice(extractImageUrlsFromInput(input), 0, maxImages)

(* The contents sent to the model.                                         *)
runGeminiParts(input, net) ==
    inlineParts(candidateUrls(input), net) \o <<[text |-> ToStr(input.prompt)]>>

(* runGemini returning the last image part of the reply.                  *)
runGeminiLastImage(reply) ==
    LET withImage == {k \in 1..Len(reply.parts) :
                         "inlineData" \in DOMAIN reply.parts[k]}
        lastPart == reply.parts[CHOOSE k \in withImage :
                                    \A j \in withImage : k >= j]
    IN  IF reply.throws THEN JsError("generateContent rejected")
        ELSE IF withImage # {}
        THEN DataUrl(<<lastPart.inlineData.mimeType>>, lastPart.inlineData.data)
        ELSE IF reply.finishReason # "" /\ reply.finishReason # "STOP"
        THEN JsError("Image generation stopped unexpectedly. Reason: "
                     \o reply.finishReason)
        ELSE JsError("Gemini did not return an image")

(* The outcome of runGemini on the reply of the model.                     *)
runGemini(reply) ==
    LET hasImage == {k \in 1..Len(reply.parts) :
                        "inlineData" \in DOMAIN reply.parts[k]}
        imagePart == reply.parts[CHOOSE k \in hasImage :
                                    \A j \in hasImage : k <= j]
    IN  IF reply.throws THEN JsError("generateContent rejected")
        ELSE IF hasImage # {}
        THEN DataUrl(<<imagePart.inlineData.mimeType>>, imagePart.inlineData.data)
        ELSE IF reply.finishReason # "" /\ reply.finishReason # "STOP"
        THEN JsError("Image generation stopped unexpectedly. Reason: "
                     \o reply.finishReason)
        ELSE JsError("Gemini did not return an image")

(* The record of one call of runGemini: its input, the answers to the      *)
(* fetches of its candidates, the parts sent, the reply of the model and   *)
(* what the call returned or threw.  On entry only the input is known,     *)
(* and the result when the checks before the first await threw.            *)
runGeminiEntered(input) ==
    [input |-> input, fetches |-> <<>>, parts |-> Null, reply |-> Null,
     result |-> runGeminiGuard(input)]

runGeminiSettled(input, net, reply) ==
    [input |-> input,
     fetches |-> [k \in 1..Len(candidateUrls(input)) |-> net[candidateUrls(input)[k]]],
     parts |-> runGeminiParts(input, net),
     reply |-> reply,
     result |-> runGemini(reply)]

----------------------------------------------------------------------------
(* api/generate/route.ts                                                   *)

Body(prompt, urls, refs, type) ==
    [t |-> "object", prompt |-> prompt, urls |-> urls, references |-> refs,
     type |-> type]

Json(code, body) == [status |-> code, body |-> body]

(* A 500 answer that keeps the message of the error to itself.             *)
ServerErrorHidingMessage(e) ==
    Json(500, [success |-> FALSE, error |-> "Failed to process request"])

ServerError(e) == Json(500, [success |-> FALSE, error |-> e.message])

(* The validation without urls.length === 0                                *)
validateAcceptingEmpty(body) ==
    IF Falsy(body.prompt)
    THEN Json(400, [success |-> FALSE, error |-> "No prompt provided"])
    ELSE IF Falsy(body.urls) \/ ~IsArray(body.urls)
    THEN Json(400, [success |-> FALSE, error |-> "No URLs provided"])
    ELSE Null

(* The 400 answer of the validation, or Null when the body passes.         *)
validate(body) ==
    IF Falsy(body.prompt)
    THEN Json(400, [success |-> FALSE, error |-> "No prompt provided"])
    ELSE IF Falsy(body.urls) \/ ~IsArray(body.urls) \/ Len(body.urls.a) = 0
    THEN Json(400, [success |-> FALSE, error |-> "No URLs provided"])
    ELSE Null

(* The merge with the references in front of the urls.                     *)
allImagesReferencesFirst(body) ==
    IF ~Falsy(body.references) /\ IsArray(body.references)
    THEN Arr(body.references.a \o body.urls.a)
    ELSE body.urls

allImages(body) ==
    IF ~Falsy(body.references) /\ IsArray(body.references)
    THEN Arr(body.urls.a \o body.references.a)
    ELSE body.urls

enhancedPrompt(body) ==
    IF body.type = Str(<<"background">>)
    THEN Str(ToStr(body.prompt) \o <<". Extract color palette and create elegant, abstract background suitable for jewelry photography.">>)
    ELSE IF body.type = Str(<<"studio">>)
    THEN Str(ToStr(body.prompt) \o <<". Professional product photography with perfect lighting and shadows.">>)
    ELSE IF body.type = Str(<<"model">>)
    THEN Str(ToStr(body.prompt) \o <<". Fashion photography style with focus on jewelry details and anchor points.">>)
    ELSE body.prompt

folder(body) ==
    IF ~Falsy(body.type) THEN Str(<<"processed", "/">> \o ToStr(body.type))
    ELSE Str(<<"processed">>)

typeOrStandard(body) ==
    IF ~Falsy(body.type) THEN body.type ELSE Str(<<"standard">>)

MaxRequests == 1

Serving == post \in {"gemini", "s3"}

(* POST up to its first await that leaves the process: the body is parsed  *)
(* and validated and runGemini is entered.                                 *)
POST(body) ==
    /\ ~Serving
    /\ now <= MaxRequests
    /\ request' = body
    /\ LET input == [prompt |-> enhancedPrompt(body), images |-> allImages(body)]
           parsed == body.t = "object"
           entered == parsed /\ validate(body) = Null
           thrown == IF entered THEN runGeminiGuard(input) ELSE Null
       IN  /\ geminiCalls' = IF entered
                             THEN <<runGeminiEntered(input)>>
                             ELSE <<>>
           /\ response' =
                IF ~parsed THEN ServerError(JsError("Unexpected token in JSON"))
                ELSE IF ~entered THEN validate(body)
                ELSE IF thrown # Null THEN ServerError(thrown)
                ELSE Null
           /\ post' = IF entered /\ thrown = Null THEN "gemini" ELSE "done"
    /\ s3Calls' = <<>>
    /\ UNCHANGED <<storeVars, orchVars, previewVars>>

(* The candidate images are fetched and the model answers; on an image the *)
(* handler enters uploadToS3.  The handler sees what runGemini sent and    *)
(* returned, not the answers to its fetches.                               *)
GeminiSettles(reply) ==
    /\ post = "gemini"
    /\ LET input == Last(geminiCalls).input
           processedImageDataUrl == runGemini(reply)
       IN  \E net \in [Range(candidateUrls(input)) -> FetchReplies] :
           /\ geminiCalls' = <<[runGeminiSettled(input, net, reply)
                                    EXCEPT !.fetches = <<>>]>>
           /\ IF processedImageDataUrl.t = "error"
              THEN /\ response' = ServerError(processedImageDataUrl)
                   /\ post' = "done"
                   /\ s3Calls' = s3Calls
              ELSE /\ response' = response
                   /\ post' = "s3"
                   /\ s3Calls' = <<[input |-> processedImageDataUrl,
                                    options |-> [folder |-> folder(request),
                                                 contentType |-> Str(<<"image/png">>)]]>>
    /\ UNCHANGED <<request, storeVars, orchVars, previewVars>>

(* uploadToS3 settles and the handler answers.                             *)
PutSettles(answer) ==
    /\ post = "s3"
    /\ LET args == Last(s3Calls)
           out == uploadToS3(args.input, args.options, bucket, fetched, answer)
       IN  /\ bucket' = out.bucket
           /\ fetched' = out.fetched
           /\ call' = [input |-> args.input, options |-> args.options,
                       result |-> out.result]
           /\ response' =
                IF out.result.t = "error" THEN ServerError(out.result)
                ELSE Json(200, [success |-> TRUE,
                                message |-> "Image processed successfully",
                                data |-> [processedImage |-> out.result,
                                          type |-> typeOrStandard(request)]])
    /\ now' = now + 1
    /\ post' = "done"
    /\ UNCHANGED <<PUBLIC_URL, apiKey, request, geminiCalls, s3Calls, orchVars,
                   previewVars>>

Url(name) == Str(<<"http", "s://", "pub.r2.dev", "/", "uploads", "/", name>>)

Bodies ==
    {[t |-> "unparsable"]} \cup
    { Body(prompt, urls, refs, type) :
        prompt \in {JsUndefined, Str(<<>>), Str(<<"a gold ring">>)},
        urls \in {JsUndefined, Url("1.jpg"), Arr(<<>>), Arr(<<Url("1.jpg")>>),
                  Arr(<<Url("1.jpg"), Str(<<"blob:", "local">>), Url("1.jpg"),
                        Url("2.jpg")>>)},
        refs \in {JsUndefined, Url("9.jpg"), Arr(<<Url("8.jpg"), Url("9.jpg")>>)},
        type \in {JsUndefined, Str(<<"background">>), Str(<<"studio">>),
                  Str(<<"model">>), Str(<<"portrait">>), Str(<<>>)} }

(* The page after the user has selected the files to work on: every        *)
(* selection leaves error and results as the constructor does.             *)
InitWith(budgets) ==
    /\ images \in {[i \in 1..n |-> i] : n \in 0..MaxImages}
    /\ references \in {[i \in 1..m |-> MaxImages + i] : m \in 0..MaxRefs}
    /\ isGenerating = FALSE
    /\ results = EmptyResults
    /\ progress = Null
    /\ error = Null
    /\ runs = <<>>
    /\ status = <<>>
    /\ posted = <<>>
    /\ queue = <<>>
    /\ timers = {}
    /\ budget \in budgets
    /\ PUBLIC_URL = ConfiguredUrl
    /\ apiKey = Str(<<"key">>)
    /\ bucket = {}
    /\ fetched = {}
    /\ now = 1
    /\ call = Null
    /\ request = Null
    /\ post = "idle"
    /\ response = Null
    /\ geminiCalls = <<>>
    /\ s3Calls = <<>>
    /\ selectedFile = Null
    /\ previewUrl = Null
    /\ objectUrls = {TablePreview(id) : id \in Range(images) \cup Range(references)}
    /\ created = 0

Init == InitWith(Budgets)

Next ==
    \/ \E type \in {"image", "reference"} : handleFiles(type)
    \/ \E type \in {"image", "reference"} : \E id \in FileIds : removeFile(id, type)
    \/ handleGenerate
    \/ \E o \in {"ok", "fail"} : UploadSettles(Head(queue), o)
    \/ \E o \in {"ok", "fail"} : BackgroundSettles(Head(queue), o)
    \/ \E o \in {"ok", "fail"} : StudioSettles(Head(queue), o)
    \/ \E o \in {"ok", "fail"} : ShotSettles(Head(queue), o)
    \/ \E r \in 1..MaxRuns : TimerFires(r)
    \/ Delay

Spec == Init /\ [][Next]_vars

(* The blob store, under each configuration of R2_PUBLIC_URL.              *)
InitStore ==
    /\ images = <<>>
    /\ references = <<>>
    /\ isGenerating = FALSE
    /\ results = EmptyResults
    /\ progress = Null
    /\ error = Null
    /\ runs = <<>>
    /\ status = <<>>
    /\ posted = <<>>
    /\ queue = <<>>
    /\ timers = {}
    /\ budget = [fails |-> 0, delays |-> 0, events |-> 0]
    /\ PUBLIC_URL \in {ConfiguredUrl, JsUndefined, Str(<<>>)}
    /\ apiKey = Str(<<"key">>)
    /\ bucket = {}
    /\ fetched = {}
    /\ now = 1
    /\ call = Null
    /\ request = Null
    /\ post = "idle"
    /\ response = Null
    /\ geminiCalls = <<>>
    /\ s3Calls = <<>>
    /\ selectedFile = Null
    /\ previewUrl = Null
    /\ objectUrls = {TablePreview(id) : id \in Range(images) \cup Range(references)}
    /\ created = 0

NextStore ==
    \E input \in UploadInputs \cup PublicUrls :
       \E options \in UploadOptions :
          \E answer \in Answers : Upload(input, options, answer)

SpecStore == InitStore /\ [][NextStore]_vars

(* The generate endpoint serving one request after the other.              *)
InitGenerate ==
    /\ images = <<>>
    /\ references = <<>>
    /\ isGenerating = FALSE
    /\ results = EmptyResults
    /\ progress = Null
    /\ error = Null
    /\ runs = <<>>
    /\ status = <<>>
    /\ posted = <<>>
    /\ queue = <<>>
    /\ timers = {}
    /\ budget = [fails |-> 0, delays |-> 0, events |-> 0]
    /\ PUBLIC_URL = ConfiguredUrl
    /\ apiKey \in {Str(<<"key">>), JsUndefined}
    /\ bucket = {}
    /\ fetched = {}
    /\ now = 1
    /\ call = Null
    /\ request = Null
    /\ post = "idle"
    /\ response = Null
    /\ geminiCalls = <<>>
    /\ s3Calls = <<>>
    /\ selectedFile = Null
    /\ previewUrl = Null
    /\ objectUrls = {TablePreview(id) : id \in Range(images) \cup Range(references)}
    /\ created = 0

NextGenerate ==
    \/ \E body \in Bodies : POST(body)
    \/ \E reply \in GeminiReplies : GeminiSettles(reply)
    \/ \E answer \in Answers : PutSettles(answer)

SpecGenerate == InitGenerate /\ [][NextGenerate]_vars

----------------------------------------------------------------------------
(* runGemini called on its own, with any input and with or without the     *)
(* API key.                                                                *)
GeminiInputs ==
    [prompt : {JsUndefined, Str(<<>>), Str(<<"a gold ring">>)},
     images : {JsUndefined, Arr(<<Url("1.jpg")>>),
               Arr(<<Url("1.jpg"), Str(<<"blob:", "local">>), Url("1.jpg"),
                     Url("2.jpg"), Url("8.jpg"), Url("9.jpg")>>)}]

(* runGemini up to its first await.                                        *)
runGeminiCalled(input) ==
    /\ post # "gemini"
    /\ geminiCalls' = <<runGeminiEntered(input)>>
    /\ post' = IF runGeminiGuard(input) = Null THEN "gemini" ELSE "done"
    /\ UNCHANGED <<request, response, s3Calls, storeVars, orchVars, previewVars>>

(* The fetches and the model answer and runGemini returns or throws.       *)
runGeminiReturns(reply) ==
    /\ post = "gemini"
    /\ LET input == Last(geminiCalls).input
       IN  \E net \in [Range(candidateUrls(input)) -> FetchReplies] :
              geminiCalls' = <<runGeminiSettled(input, net, reply)>>
    /\ post' = "done"
    /\ UNCHANGED <<request, response, s3Calls, storeVars, orchVars, previewVars>>

NextGemini ==
    \/ \E input \in GeminiInputs : runGeminiCalled(input)
    \/ \E reply \in GeminiReplies : runGeminiReturns(reply)

SpecGemini == InitGenerate /\ [][NextGemini]_vars

----------------------------------------------------------------------------
(* handleGenerate called by any caller, under a network in which every     *)
(* call in flight is eventually answered.  The Generate button is disabled *)
(* with no image selected; another caller reaches the first lines of       *)
(* handleGenerate with images empty.                                       *)

(* handleGenerate with no image, going on after setError.                  *)
handleGenerateWithoutReturn ==
    /\ Len(images) = 0
    /\ error' = [message |-> "Please upload at least one image"]
    /\ isGenerating' = TRUE
    /\ UNCHANGED <<images, references, results, progress, runs, status, posted, queue,
                   timers, budget>>
    /\ UNCHANGED <<storeVars, postVars, previewVars>>

(* if (images.length === 0) { setError(...); return; }                     *)
handleGenerateWithoutImages ==
    /\ Len(images) = 0
    /\ error' = [message |-> "Please upload at least one image"]
    /\ UNCHANGED <<images, references, isGenerating, results, progress, runs,
                   status, posted, queue, timers, budget>>
    /\ UNCHANGED <<storeVars, postVars, previewVars>>

(* The head of the queue is answered.                                      *)
Answered ==
    \E o \in {"ok", "fail"} :
       \/ UploadSettles(Head(queue), o)
       \/ BackgroundSettles(Head(queue), o)
       \/ StudioSettles(Head(queue), o)
       \/ ShotSettles(Head(queue), o)

NextFair ==
    \/ Next
    \/ handleGenerateWithoutImages

(* The environments of the fair runs: one call fails, one delivery is      *)
(* delayed, or the user changes the files once.                            *)
FairBudgets ==
    { [fails |-> 1, delays |-> 0, events |-> 0],
      [fails |-> 0, delays |-> 1, events |-> 0],
      [fails |-> 0, delays |-> 0, events |-> 1] }

InitFair == InitWith(FairBudgets)

SpecFair == InitFair /\ [][NextFair]_vars /\ WF_vars(Answered)

----------------------------------------------------------------------------
(* The file inputs of the two pages: the selections and removals of the    *)
(* table page and the single file of Home (app/page.tsx).                  *)
MaxSelects == 3

HomeFiles == {"ring.png", "necklace.png"}

(* Home.handleFileSelect with a file chosen.                               *)
handleFileSelect(file) ==
    /\ created < MaxSelects
    /\ selectedFile' = file
    /\ previewUrl' = HomePreview(created + 1)
    /\ objectUrls' = objectUrls \cup {HomePreview(created + 1)}
    /\ created' = created + 1
    /\ UNCHANGED <<orchVars, storeVars, postVars>>

(* Home.resetForm.                                                         *)
resetForm ==
    /\ selectedFile' = Null
    /\ previewUrl' = Null
    /\ objectUrls' = IF previewUrl # Null THEN objectUrls \ {previewUrl}
                     ELSE objectUrls
    /\ UNCHANGED <<created, orchVars, storeVars, postVars>>

InitPreview ==
    /\ images = <<>>
    /\ references = <<>>
    /\ isGenerating = FALSE
    /\ results = EmptyResults
    /\ progress = Null
    /\ error = Null
    /\ runs = <<>>
    /\ status = <<>>
    /\ posted = <<>>
    /\ queue = <<>>
    /\ timers = {}
    /\ budget = [fails |-> 0, delays |-> 0, events |-> MaxSelects]
    /\ PUBLIC_URL = ConfiguredUrl
    /\ apiKey = Str(<<"key">>)
    /\ bucket = {}
    /\ fetched = {}
    /\ now = 1
    /\ call = Null
    /\ request = Null
    /\ post = "idle"
    /\ response = Null
    /\ geminiCalls = <<>>
    /\ s3Calls = <<>>
    /\ selectedFile = Null
    /\ previewUrl = Null
    /\ objectUrls = {}
    /\ created = 0

NextPreview ==
    \/ \E type \in {"image", "reference"} : handleFiles(type)
    \/ \E id \in FileIds, type \in {"image", "reference"} : removeFile(id, type)
    \/ \E file \in HomeFiles : handleFileSelect(file)
    \/ resetForm

SpecPreview == InitPreview /\ [][NextPreview]_vars

----------------------------------------------------------------------------
(* Properties of the orchestrator.                                         *)

GenerateKinds == {"background", "studio", "model"}

(* The step in which run r passes the barrier of the object stage.         *)
Completes(r) ==
    /\ r \in 1..Len(runs)
    /\ runs[r].pc = "objects"
    /\ runs'[r].pc = "done"

(* The step in which the upload stage of run r is rejected.                *)
Aborts(r) ==
    /\ r \in 1..Len(runs)
    /\ runs[r].pc = "uploading"
    /\ runs'[r].pc = "aborted"

Entries(res) ==
    {k \in 1..Len(res.objectResults) : res.objectResults[k] # Undefined}

ShotUrls(entry) ==
    UNION {Range(entry.modelShots[k].images) : k \in 1..Len(entry.modelShots)}

(* Every URL held by the aggregate.                                        *)
UrlsOf(res) ==
    Range(res.backgroundAssets)
    \cup ({res.objectResults[k].studioView : k \in Entries(res)} \ {EmptyString})
    \cup UNION {ShotUrls(res.objectResults[k]) : k \in Entries(res)}

(* The aggregate of a run of n images in which no generation call failed.  *)
NothingOmitted(res, n) ==
    /\ Len(res.backgroundAssets) = NumBackgrounds
    /\ Len(res.objectResults) = n
    /\ \A k \in 1..n :
          /\ res.objectResults[k] # Undefined
          /\ res.objectResults[k].studioView # EmptyString
          /\ Len(res.objectResults[k].modelShots) = Len(modelTypes)
          /\ \A j \in 1..Len(modelTypes) :
                Len(res.objectResults[k].modelShots[j].images) = ShotsPerType

(* C1: in a run in which every call succeeds the published currentStep is  *)
(* totalSteps = 1 + 5 + 10 * N at the 'Complete' stage, and currentStep    *)
(* never exceeds totalSteps.                                               *)
C1_CounterReachesTotal ==
    progress # Null =>
        /\ progress.currentStep <= progress.totalSteps
        /\ (/\ progress.stage = "Complete"
            /\ \E n \in 1..MaxImages :
                  /\ progress.totalSteps = 1 + 5 + 10 * n
                  /\ NothingOmitted(results, n))
           => progress.currentStep = progress.totalSteps

(* C2: the values a run publishes through updateProgress never decrease:   *)
(* whatever a step publishes is at least the counter its closure held      *)
(* before the step, and the counter of a live closure never goes down.     *)
C2_CounterNeverDecreases ==
    [][/\ (/\ progress' # Null
           /\ progress' # progress
           /\ queue # <<>>
           /\ Len(runs') = Len(runs))
          => progress'.currentStep >= runs[Head(queue).run].completedSteps
       /\ \A r \in 1..Len(runs) :
             runs'[r].totalSteps # 0
                => runs'[r].completedSteps >= runs[r].completedSteps]_vars

C2_Witness ==
    /\ progress # Null
    /\ progress.stage = "Model Photography"
    /\ progress.currentStep >= 5
    /\ \E c \in DOMAIN status : status[c] = "fail"

(* C3: a run that reaches 'Complete' leaves objectResults of length N, and *)
(* entry i holds what was produced from the i-th primary image.            *)
C3_ObjectResultsAligned ==
    [][\A r \in 1..Len(runs) :
          Completes(r) =>
             /\ Len(results'.objectResults) = runs[r].nImages
             /\ \A k \in 1..Len(results'.objectResults) :
                   /\ results'.objectResults[k] # Undefined
                   /\ results'.objectResults[k].studioView
                         \in {EmptyString, StudioCall(r, k)}
                   /\ \A u \in ShotUrls(results'.objectResults[k]) :
                         u.run = r /\ u.idx = k]_vars

(* C4: backgroundAssets of the aggregate never holds more than 5 URLs.     *)
C4_AtMostFiveBackgrounds == Len(results.backgroundAssets) <= 5

C4_Witness ==
    /\ Len(results.backgroundAssets) = 5
    /\ isGenerating

(* C5: a run in which exactly one background call failed is not aborted    *)
(* and completes with 4 background assets and no error.                    *)
FailedBackgrounds(r) ==
    {i \in 1..NumBackgrounds : Outcome(BackgroundCall(r, i)) = "fail"}

C5_OneBackgroundFails ==
    [][\A r \in 1..Len(runs) :
          (runs[r].pc = "objects" /\ Cardinality(FailedBackgrounds(r)) = 1)
             => /\ runs'[r].pc \in {"objects", "done"}
                /\ error' = Null
                /\ Completes(r) => Len(results'.backgroundAssets) = 4]_vars

C5_Witness ==
    /\ progress # Null
    /\ progress.stage = "Complete"
    /\ Len(results.backgroundAssets) = 4
    /\ error = Null
    /\ ~isGenerating

(* C6: a failed upload aborts the run: the error is set, progress is       *)
(* cleared, isGenerating is false again, results are empty, and the run    *)
(* never issues a request to /api/generate.                                *)
C6_UploadFailureAborts ==
    [][\A r \in 1..Len(runs) :
          /\ Aborts(r) =>
                /\ error' # Null
                /\ progress' = Null
                /\ ~isGenerating'
                /\ results' = EmptyResults
          /\ runs'[r].pc = "aborted" =>
                \A c \in DOMAIN status' :
                   c.run = r => c.kind \notin GenerateKinds]_vars

(* C7: once the uploads have succeeded no failure of a generation call     *)
(* aborts the run or sets the error, and a failed call costs only its own  *)
(* image: every image generated before the run completes is in the final   *)
(* aggregate.                                                              *)
C7_FailuresOnlyOmitTheirImage ==
    [][\A r \in 1..Len(runs) :
          /\ runs[r].pc \in {"backgrounds", "objects"} =>
                /\ runs'[r].pc \in {"backgrounds", "objects", "done"}
                /\ error' = Null
          /\ Completes(r) =>
                \A c \in DOMAIN status :
                   (c.run = r /\ c.kind \in GenerateKinds /\ status[c] = "ok")
                      => c \in UrlsOf(results')]_vars

(* C8: the studio call and the shots of an image degrade independently: an *)
(* image whose studio call failed is in the final aggregate with an empty  *)
(* studioView and every category that had a successful shot.               *)
C8_StudioFailureKeepsEntry ==
    [][\A r \in 1..Len(runs) :
          Completes(r) =>
             \A obj \in 1..runs[r].nImages :
                Outcome(StudioCall(r, obj)) = "fail" =>
                   /\ obj <= Len(results'.objectResults)
                   /\ results'.objectResults[obj] # Undefined
                   /\ results'.objectResults[obj].studioView = EmptyString
                   /\ \A c \in DOMAIN status :
                         (/\ c.run = r /\ c.kind = "model" /\ c.idx = obj
                          /\ status[c] = "ok"
                          /\ modelResolved(status, r, obj, c.type))
                            => c \in ShotUrls(results'.objectResults[obj])]_vars

----------------------------------------------------------------------------
(* Properties of the generate endpoint.                                    *)

MissingPrompt(body) == body.prompt \in {JsUndefined, JsNull, Str(<<>>)}

BadUrls(body) ==
    \/ body.urls \in {JsUndefined, JsNull}
    \/ body.urls.t # "array"
    \/ body.urls.a = <<>>

(* C9: a request whose prompt is missing or empty, or whose urls is        *)
(* absent, not an array or empty, is answered 400 with success false, and  *)
(* serving it calls neither runGemini nor uploadToS3 and leaves the store  *)
(* as it was.                                                              *)
C9_InvalidRequestRejected ==
    [][(/\ request' # Null
        /\ request'.t = "object"
        /\ (MissingPrompt(request') \/ BadUrls(request')))
          => /\ post' = "done"
             /\ response'.status = 400
             /\ response'.body.success = FALSE
             /\ geminiCalls' = <<>>
             /\ s3Calls' = <<>>
             /\ bucket' = bucket
             /\ fetched' = fetched]_vars

C9_Witness ==
    /\ request # Null
    /\ request.t = "object"
    /\ ~MissingPrompt(request)
    /\ request.urls = Arr(<<>>)
    /\ post = "done"
    /\ response.status = 400
    /\ geminiCalls = <<>>

----------------------------------------------------------------------------
(* Properties of the blob store.                                           *)

(* C10: a URL a successful put returned, passed to uploadToS3 again, comes *)
(* back unchanged, is not fetched and stores no object.                    *)
C10_ReturnedUrlIsFixedPoint ==
    [][(now' # now /\ call'.input \in PublicUrls)
          => /\ call'.result = call'.input
             /\ bucket' = bucket
             /\ fetched' = fetched]_vars

C10_Witness ==
    /\ call # Null
    /\ call.input \in PublicUrls
    /\ call.result = call.input
    /\ Cardinality(bucket) = 1

(* The content types of the table of the blob store.                       *)
TableTypes ==
    {"image/jpeg", "image/jpg", "image/png", "image/webp", "image/gif",
     "image/bmp", "image/tiff", "image/svg+xml", "video/mp4", "video/webm",
     "video/avi", "video/mov", "text/plain", "application/pdf",
     "application/json"}

(* '{folder}/{timestamp}-{random}' for the put of a step.                  *)
KeyStem(options, answer) ==
    (IF options.folder = JsUndefined THEN <<"default">> ELSE options.folder.s)
    \o <<"/", ToString(now), "-", answer.random>>

(* C11: the object a put stores has the key '{folder}/{timestamp}-{random}' *)
(* followed by the extension of its content type: '.png' for 'image/png',  *)
(* one fixed extension for each type of the table, and nothing for a type  *)
(* that is not in the table, the empty string included.  (The folders are  *)
(* those the routes pass, none of them empty.)                             *)
C11_KeyCarriesTableExtension ==
    [][\A o \in bucket' \ bucket :
          \E answer \in Answers :
             LET stem == KeyStem(call'.options, answer)
                 inTable == Len(o.contentType) = 1 /\ o.contentType[1] \in TableTypes
             IN  /\ o.contentType = <<"image/png">> => o.key = stem \o <<".png">>
                 /\ ~inTable => o.key = stem
                 /\ inTable => /\ Len(o.key) = Len(stem) + 1
                                /\ SubSeq(o.key, 1, Len(stem)) = stem
                                /\ \A u \in bucket' :
                                      u.contentType = o.contentType
                                         => u.key[Len(u.key)] = o.key[Len(o.key)]]_vars

C11_Witness ==
    /\ \E o \in bucket : o.contentType = <<"image/heic">> /\ o.key[Len(o.key)] = "k3f9"
    /\ \E o \in bucket : o.contentType = <<>> /\ o.key[Len(o.key)] = "k3f9"

----------------------------------------------------------------------------
(* Properties of the stages of a run.                                      *)

(* C12: a call to /api/generate exists only in a run whose uploads have    *)
(* all completed, and a studio or model-shot call only in a run whose five *)
(* background calls have all settled, by success or by failure.            *)
C12_StagesSeparatedByBarriers ==
    \A c \in DOMAIN status :
       /\ c.kind \in GenerateKinds =>
             \A u \in Range(imageUrls(c.run) \o referenceUrls(c.run)) :
                Outcome(u) = "ok"
       /\ c.kind \in {"studio", "model"} =>
             \A i \in 1..NumBackgrounds :
                Outcome(BackgroundCall(c.run, i)) \in {"ok", "fail"}

C12_Witness ==
    \E r \in 1..Len(runs) :
       /\ runs[r].nImages = 2
       /\ runs[r].nReferences = 1
       /\ Outcome(ShotCall(r, 2, "wrist", 3)) = "pending"
       /\ Outcome(BackgroundCall(r, 2)) = "fail"
       /\ Outcome(BackgroundCall(r, 5)) = "ok"

(* C13: when a run writes the final aggregate and publishes 'Complete', no *)
(* generation call of that run is still outstanding.                       *)
C13_FinalWriteAfterAllSettled ==
    [][\A r \in 1..Len(runs) :
          Completes(r) =>
             /\ \A k \in 1..Len(queue') : queue'[k].run # r
             /\ \A obj \in 1..runs[r].nImages :
                   \A k \in 1..Len(ObjectCalls(r, obj)) :
                      Outcome(ObjectCalls(r, obj)[k]) # "none"]_vars

(* The aggregate the merges of a step have produced when, in that step,    *)
(* the call at the head of the queue settles: what setResults holds just   *)
(* before a final write of the same step.                                  *)
MergedBefore ==
    LET c == Head(queue)
        o == IF budget'.fails < budget.fails THEN "fail" ELSE "ok"
        st == [status EXCEPT ![c] = o]
    IN  IF c.kind = "studio" THEN studioMerged(st, c, o) ELSE shotMerged(st, c)

(* No file was selected or removed since run r started, and no earlier run *)
(* has left callbacks behind.                                              *)
Undisturbed(r) ==
    /\ r = 1
    /\ Len(images) = runs[r].nImages
    /\ Len(references) = runs[r].nReferences

(* C14: in a run without user action the final setResults writes the value *)
(* the incremental merges had already produced: the same backgroundAssets  *)
(* in the same order and the same objectResults.                           *)
C14_FinalWriteIdempotent ==
    [][\A r \in 1..Len(runs) :
          (Completes(r) /\ Undisturbed(r)) => results' = MergedBefore]_vars

----------------------------------------------------------------------------
(* Properties of the incremental aggregate.                                *)

CategoriesOf(entry) == {entry.modelShots[k].type : k \in 1..Len(entry.modelShots)}

(* Nothing the aggregate a holds is missing from the aggregate b.          *)
Grows(a, b) ==
    /\ Range(a.backgroundAssets) \subseteq Range(b.backgroundAssets)
    /\ \A k \in Entries(a) :
          /\ k \in Entries(b)
          /\ a.objectResults[k].studioView # EmptyString
                => b.objectResults[k].studioView # EmptyString
          /\ CategoriesOf(a.objectResults[k]) \subseteq CategoriesOf(b.objectResults[k])
          /\ ShotUrls(a.objectResults[k]) \subseteq ShotUrls(b.objectResults[k])

(* C15: while the first generation is in flight, a step in which a call    *)
(* settles and its merge runs removes nothing from the aggregate: no       *)
(* background URL, no studio view, no category and no image of a category. *)
C15_AggregateOnlyGrows ==
    [][(/\ Len(runs) = 1
        /\ isGenerating /\ isGenerating'
        /\ queue' # queue)
          => Grows(results, results')]_vars

(* The step in which call c settles and its callbacks run.                 *)
Settles(c) ==
    /\ queue # <<>>
    /\ c = Head(queue)
    /\ queue' # queue
    /\ Len(runs') = Len(runs)
    /\ budget'.delays = budget.delays

(* The entry of image k in the aggregate res, absent entries read as the   *)
(* empty entry.                                                            *)
EntryOf(res, k) ==
    IF k \in Entries(res) THEN res.objectResults[k]
    ELSE [studioView |-> EmptyString, modelShots |-> <<>>]

ShotsOfOtherTypes(entry, t) ==
    {entry.modelShots[k] : k \in {j \in 1..Len(entry.modelShots) :
                                      entry.modelShots[j].type # t}}

OtherEntriesKept(obj) ==
    \A k \in Entries(results) \ {obj} :
       k \in Entries(results') /\ results'.objectResults[k] = results.objectResults[k]

(* C16: the merge of a call writes only the field its branch owns: a       *)
(* background merge only backgroundAssets, the studio merge of image i     *)
(* only objectResults[i].studioView, a category merge of image i only the  *)
(* entry of its category in objectResults[i].modelShots.                   *)
C16_MergesWriteOwnFields ==
    [][\A c \in Range(queue) :
          (Settles(c) /\ ~Completes(c.run)) =>
             /\ c.kind = "background" =>
                   results'.objectResults = results.objectResults
             /\ c.kind = "studio" =>
                   /\ results'.backgroundAssets = results.backgroundAssets
                   /\ OtherEntriesKept(c.idx)
                   /\ EntryOf(results', c.idx).modelShots
                         = EntryOf(results, c.idx).modelShots
             /\ c.kind = "model" =>
                   /\ results'.backgroundAssets = results.backgroundAssets
                   /\ OtherEntriesKept(c.idx)
                   /\ EntryOf(results', c.idx).studioView
                         = EntryOf(results, c.idx).studioView
                   /\ ShotsOfOtherTypes(EntryOf(results', c.idx), c.type)
                         = ShotsOfOtherTypes(EntryOf(results, c.idx), c.type)]_vars

(* C17: in every state of the aggregate the modelShots of each entry hold  *)
(* at most one entry per category, every category is ear, neck or wrist,   *)
(* and every images list has between 1 and 3 URLs.                         *)
C17_OneEntryPerCategory ==
    \A k \in Entries(results) :
       LET shots == results.objectResults[k].modelShots
       IN  /\ \A i, j \in 1..Len(shots) : shots[i].type = shots[j].type => i = j
           /\ \A j \in 1..Len(shots) :
                 /\ shots[j].type \in Range(modelTypes)
                 /\ Len(shots[j].images) \in 1..ShotsPerType

(* A category of a finished earlier run is merged into the aggregate of    *)
(* the next run, and the same category of the next run is merged over it.  *)
C17_Witness ==
    \E k \in Entries(results) :
       LET shots == results.objectResults[k].modelShots
       IN  /\ Len(runs) = 2
           /\ Len(shots) >= 2
           /\ \E j \in 1..Len(shots) :
                 /\ shots[j].images[1].run = 2
                 /\ \E i \in 1..Len(shots) : shots[i].images[1].run = 1

----------------------------------------------------------------------------
(* Properties of the category merge.                                       *)

(* The statuses right after the head of the queue has settled, before the  *)
(* promises of a finished run are released.                                *)
StatusAfter ==
    IF queue = <<>> THEN status
    ELSE [status EXCEPT ![Head(queue)] =
             IF budget'.fails < budget.fails THEN "fail" ELSE "ok"]

(* The category entries of image k that the step has written.              *)
Written(k) ==
    {shot \in Range(EntryOf(results', k).modelShots) :
        shot \notin Range(EntryOf(results, k).modelShots)}

(* C18: a category entry is written into the aggregate only when the three *)
(* shot calls of that category of its image have all settled, and it holds *)
(* exactly the successful ones in launch order, at least one: a category   *)
(* whose three shots failed is written by no merge and by no final write.  *)
(* A merge writes the category of image i into objectResults[i].           *)
C18_CategoryMergedWhenComplete ==
    [][\A k \in Entries(results') : \A shot \in Written(k) :
          /\ shot.images # <<>>
          /\ LET r == shot.images[1].run
                 obj == shot.images[1].idx
             IN  /\ AllSettled(StatusAfter, shotPromises(r, obj, shot.type))
                 /\ shot.images = shotImages(StatusAfter, r, obj, shot.type)
                 /\ ~Completes(r) => obj = k]_vars

(* A run has ended with the studio view of an image and two of its three   *)
(* categories: the three shots of the third one failed.                    *)
C18_Witness ==
    /\ Len(runs) = 1
    /\ runs[1].pc = "done"
    /\ \E k \in Entries(results) :
          /\ results.objectResults[k].studioView # EmptyString
          /\ Len(results.objectResults[k].modelShots) = Len(modelTypes) - 1

----------------------------------------------------------------------------
(* Properties of the progress display.                                     *)

(* The latest run has reached 'Complete' and its timer has fired.          *)
DisplayCleared ==
    /\ runs # <<>>
    /\ runs[Len(runs)].pc = "done"
    /\ Len(runs) \notin timers
    /\ progress = Null

(* C19: once the latest run has reached 'Complete' and the timer has set   *)
(* progress to null, progress stays null until handleGenerate starts       *)
(* another run.                                                            *)
C19_ProgressStaysAbsent ==
    [][(DisplayCleared /\ Len(runs') = Len(runs)) => progress' = Null]_vars

----------------------------------------------------------------------------
(* Properties of what POST /api/generate hands on.                         *)

(* The clause the contract fixes for a type, nothing for any other type.   *)
Clause(type) ==
    IF type = Str(<<"background">>)
    THEN <<". Extract color palette and create elegant, abstract background suitable for jewelry photography.">>
    ELSE IF type = Str(<<"studio">>)
    THEN <<". Professional product photography with perfect lighting and shadows.">>
    ELSE IF type = Str(<<"model">>)
    THEN <<". Fashion photography style with focus on jewelry details and anchor points.">>
    ELSE <<>>

(* The references of a request as a list: none when the field is absent or *)
(* is not a list.                                                          *)
ReferenceList(body) ==
    IF body.references.t = "array" THEN body.references.a ELSE <<>>

TypeGiven(body) == body.type.t = "string" /\ body.type.s # <<>>

(* C20: for a request that passes the validation, the generation client    *)
(* receives the request prompt followed by the clause of the type          *)
(* (background, studio, model) and the bare prompt for any other or absent *)
(* type, with the images urls followed by references in order; the result  *)
(* is stored under 'processed/{type}' when a type is given and under       *)
(* 'processed' otherwise; the 200 answer carries the type, or 'standard'   *)
(* when none is given.                                                     *)
C20_RequestHandedOn ==
    /\ geminiCalls # <<>> =>
          /\ geminiCalls[1].input.prompt = Str(request.prompt.s \o Clause(request.type))
          /\ geminiCalls[1].input.images = Arr(request.urls.a \o ReferenceList(request))
    /\ s3Calls # <<>> =>
          s3Calls[1].options.folder =
             IF TypeGiven(request) THEN Str(<<"processed", "/">> \o request.type.s)
             ELSE Str(<<"processed">>)
    /\ (response # Null /\ response.status = 200) =>
          response.body.data.type =
             IF TypeGiven(request) THEN request.type ELSE Str(<<"standard">>)

(* A model request with two references has been answered with 200.         *)
C20_Witness ==
    /\ response # Null
    /\ response.status = 200
    /\ request.type = Str(<<"model">>)
    /\ request.references.t = "array"
    /\ Len(geminiCalls[1].input.images.a) = Len(request.urls.a) + 2

----------------------------------------------------------------------------
(* Properties of the answers of POST /api/generate.                        *)

HasAnswered == post = "done" /\ response # Null

IsFailure(res, message) ==
    res = Json(500, [success |-> FALSE, error |-> message])

(* The error the request has met, read from what the handler called: the   *)
(* body that could not be parsed, runGemini on the logged input, or the    *)
(* result of uploadToS3.                                                   *)
ErrorsAnswered ==
    /\ request.t = "unparsable" => response.status = 500
    /\ (geminiCalls # <<>> /\ s3Calls = <<>>) => response.status = 500
    /\ (s3Calls # <<>> /\ call.result.t = "error") =>
          IsFailure(response, call.result.message)
    /\ response.status = 500 =>
          /\ response.body.success = FALSE
          /\ DOMAIN response.body = {"success", "error"}
    /\ response.status = 200 =>
          /\ s3Calls # <<>>
          /\ call.result.t = "string"
          /\ response.body.data.processedImage = call.result

(* C21: an error thrown by the parsing of the request, by runGemini or by  *)
(* uploadToS3 is answered with 500 and {success: false, error: message},   *)
(* never with a success body; when runGemini fails uploadToS3 is not       *)
(* called, and a request answered with 500 has stored no object.           *)
C21_ErrorsBecome500 ==
    [][HasAnswered' =>
          /\ ErrorsAnswered'
          /\ response'.status = 500 => bucket' = bucket
          /\ (post = "gemini" /\ response'.status = 500) => s3Calls' = <<>>
          /\ (~Serving /\ geminiCalls' # <<>>) =>
                IsFailure(response', runGeminiGuard(geminiCalls'[1].input).message)]_vars

(* runGemini has made its network calls and failed, and the answer is 500  *)
(* with the store left alone.                                              *)
C21_Witness ==
    /\ HasAnswered
    /\ response.status = 500
    /\ geminiCalls # <<>>
    /\ s3Calls = <<>>
    /\ response.body.error = "Gemini did not return an image"

----------------------------------------------------------------------------
(* Properties of runGemini.                                                *)

(* The first three candidate URLs of an input.                             *)
FirstThree(input) ==
    LET all == extractImageUrlsFromInput(input)
    IN  [k \in 1..(IF Len(all) < 3 THEN Len(all) ELSE 3) |-> all[k]]

(* runGemini has made its network calls.                                   *)
ModelAsked == geminiCalls # <<>> /\ geminiCalls[1].reply # Null

(* A fetch whose image is to be sent: answered 2xx, of type png, jpeg or   *)
(* webp (png when the answer names no type), of at most 7 MiB declared.    *)
Usable(res) ==
    /\ ~res.throws
    /\ res.ok
    /\ res.type \in {"", "image/png", "image/jpeg", "image/webp"}
    /\ res.length <= 7 * 1024 * 1024

(* C22: the request sent to the model holds at most 3 inline image parts,  *)
(* one for each of the first 3 candidate URLs whose fetch is usable, in    *)
(* the order of the candidates, and the text prompt as its last part.      *)
C22_PartsOfTheRequest ==
    ModelAsked =>
       LET sent == geminiCalls[1]
           first == FirstThree(sent.input)
           kept == {k \in 1..Len(first) : Usable(sent.fetches[k])}
           count == Len(sent.parts) - 1
           Nth(j) == CHOOSE k \in kept : Cardinality({i \in kept : i < k}) = j - 1
       IN  /\ Len(sent.fetches) = Len(first)
           /\ count \in 0..3
           /\ count = Cardinality(kept)
           /\ sent.parts[count + 1] = [text |-> sent.input.prompt.s]
           /\ \A j \in 1..count :
                 /\ DOMAIN sent.parts[j] = {"inlineData"}
                 /\ sent.parts[j].inlineData.data = <<"base64 of">> \o first[Nth(j)].s
                 /\ sent.parts[j].inlineData.mimeType =
                       IF sent.fetches[Nth(j)].type = "" THEN "image/png"
                       ELSE sent.fetches[Nth(j)].type

(* An input with more than three candidates, of which the second was       *)
(* skipped and the first and the third were sent.                          *)
C22_Witness ==
    /\ ModelAsked
    /\ Len(extractImageUrlsFromInput(geminiCalls[1].input)) > 3
    /\ Len(geminiCalls[1].parts) = 3
    /\ ~Usable(geminiCalls[1].fetches[2])

(* The reply of the model holds a part with inline image data.             *)
ImageParts(reply) ==
    {k \in 1..Len(reply.parts) : "inlineData" \in DOMAIN reply.parts[k]}

(* C23: when the model answers, runGemini returns the first part with      *)
(* inline image data as 'data:{mime};base64,{payload}'; without such a     *)
(* part it throws the stopped-generation error with the finish reason when *)
(* a finish reason other than STOP is reported, and the no-image error     *)
(* otherwise.  With an empty prompt or without an API key it throws before *)
(* any network call.                                                       *)
C23_OutcomeOfRunGemini ==
    geminiCalls # <<>> =>
       LET done == geminiCalls[1]
           reply == done.reply
           first == CHOOSE k \in ImageParts(reply) :
                       \A j \in ImageParts(reply) : k <= j
       IN  /\ (done.input.prompt \in {JsUndefined, Str(<<>>)} \/ apiKey = JsUndefined) =>
                 /\ done.result.t = "error"
                 /\ done.reply = Null
                 /\ done.fetches = <<>>
                 /\ post = "done"
           /\ (done.reply # Null /\ ~reply.throws) =>
                 IF ImageParts(reply) # {}
                 THEN done.result =
                         Str(<<"data:", reply.parts[first].inlineData.mimeType,
                               ";base64,", reply.parts[first].inlineData.data>>)
                 ELSE IF reply.finishReason \notin {"", "STOP"}
                 THEN done.result =
                         JsError("Image generation stopped unexpectedly. Reason: "
                                 \o reply.finishReason)
                 ELSE done.result = JsError("Gemini did not return an image")

(* The model has answered with text and two images and a finish reason     *)
(* other than STOP, and runGemini has returned the first image.            *)
C23_Witness ==
    /\ geminiCalls # <<>>
    /\ geminiCalls[1].reply # Null
    /\ Cardinality(ImageParts(geminiCalls[1].reply)) = 2
    /\ geminiCalls[1].reply.finishReason = "MAX_TOKENS"
    /\ geminiCalls[1].result.t = "string"

----------------------------------------------------------------------------
(* Properties of the put of a data URL.                                    *)

IsDataUrl(v) == v.t = "string" /\ v.s # <<>> /\ v.s[1] = "data:"

(* The bytes a base64 payload stands for.                                  *)
Decoded(payload) ==
    IF payload = "iVBORw==" THEN "PNG bytes"
    ELSE IF payload = "/9j/4A==" THEN "JPEG bytes"
    ELSE "bytes"

(* The content type a data URL names in front of ';base64,', if any.       *)
PrefixType(v) == IF v.s[2] = ";base64," THEN <<>> ELSE <<v.s[2]>>

(* The object stored by the last call.                                     *)
StoredByCall ==
    {o \in bucket : call.result = Str(ToStr(PUBLIC_URL) \o <<"/">> \o o.key)}

(* C24: a put of a 'data:' URI stores the decoded base64 payload, with the *)
(* content type it was given when it was given one and with the type of    *)
(* the URI prefix only when it was given none; so a put with content type  *)
(* image/png, which is what /api/generate makes, stores an image/png       *)
(* object under a '.png' key whatever type the data URI names.             *)
C24_DataUrlStoredWithGivenType ==
    (/\ call # Null
     /\ IsDataUrl(call.input)
     /\ call.result.t = "string"
     /\ call.result # call.input) =>
        /\ Cardinality(StoredByCall) = 1
        /\ \A o \in StoredByCall :
              LET given == call.options.contentType
                  wasGiven == given.t = "string" /\ given.s # <<>>
              IN  /\ o.body = <<Decoded(Last(call.input.s))>>
                  /\ wasGiven => o.contentType = given.s
                  /\ (~wasGiven /\ PrefixType(call.input) # <<>>) =>
                        o.contentType = PrefixType(call.input)
                  /\ given = Str(<<"image/png">>) =>
                        /\ o.contentType = <<"image/png">>
                        /\ Last(o.key) = ".png"

(* A JPEG data URL was put with content type image/png and is stored as    *)
(* image/png under a '.png' key.                                           *)
C24_Witness ==
    /\ call # Null
    /\ IsDataUrl(call.input)
    /\ PrefixType(call.input) = <<"image/jpeg">>
    /\ call.options.contentType = Str(<<"image/png">>)
    /\ \E o \in StoredByCall : o.contentType = <<"image/png">>

----------------------------------------------------------------------------
(* Properties of the previews.                                             *)

(* The object URLs of the files the pages hold.                            *)
HeldPreviews ==
    {TablePreview(id) : id \in Range(images) \cup Range(references)}
    \cup (IF previewUrl # Null THEN {previewUrl} ELSE {})

(* C25: after any selections, removals and resets every object URL that is *)
(* still alive is the preview of a file a page holds: the previews of      *)
(* removed, reset and replaced files have been revoked.                    *)
C25_PreviewsReleased == objectUrls \subseteq HeldPreviews

----------------------------------------------------------------------------
(* Properties of runs that have ended.                                     *)

Ended(r) == r \in 1..Len(runs) /\ runs[r].pc \in {"done", "aborted"}

(* C26: a call of a run that has ended settles without its callbacks       *)
(* writing results or progress.                                            *)
C26_EndedRunsAreSilent ==
    [][\A c \in Range(queue) :
          (Settles(c) /\ Ended(c.run)) =>
             /\ results' = results
             /\ progress' = progress]_vars

(* C27: while a run is in flight, progress, which the run published when   *)
(* it started, is not absent.                                              *)
C27_ProgressShownWhileGenerating == isGenerating => progress # Null

----------------------------------------------------------------------------
(* Properties of the life of a run.                                        *)

NoImageError == [message |-> "Please upload at least one image"]

(* The latest run has started and not ended.                               *)
RunInFlight == runs # <<>> /\ ~Ended(Len(runs))

(* C28: with every call eventually answered, isGenerating returns to false *)
(* after every start of a run; it is true exactly while the latest run has *)
(* started and not ended; and a call of handleGenerate with no image sets  *)
(* the error, starts no run, issues no call and leaves isGenerating,       *)
(* results and progress alone.                                             *)
C28_RunsTerminate ==
    /\ isGenerating ~> ~isGenerating
    /\ [](isGenerating <=> RunInFlight)
    /\ [][/\ Len(images) = 0 => Len(runs') = Len(runs)
          /\ (error' = NoImageError /\ error # NoImageError) =>
                /\ Len(images) = 0
                /\ UNCHANGED <<isGenerating, results, progress, runs, status, posted,
                               queue>>]_vars

(* One run has ended in the catch of the upload stage and the next one at  *)
(* 'Complete', and nothing is in flight.                                   *)
C28_Witness ==
    /\ Len(runs) = 2
    /\ runs[1].pc = "aborted"
    /\ runs[2].pc = "done"
    /\ ~isGenerating
    /\ queue = <<>>

----------------------------------------------------------------------------
(* Properties of the requests of the object stage.                         *)

(* The background calls of run r that succeeded, in the order in which the *)
(* prompts were launched.                                                  *)
SucceededInOrder(r) ==
    SelectSeq(backgroundPromises(r), LAMBDA b : Outcome(b) = "ok")

FirstTwo(seq) == SubSeq(seq, 1, IF Len(seq) < 2 THEN Len(seq) ELSE 2)

(* The references of a studio or model-shot request without the user's     *)
(* reference URLs that end those of a model-shot request.                  *)
StylePart(c) ==
    IF c.kind = "model"
    THEN SubSeq(posted[c].references, 1,
                Len(posted[c].references) - runs[c.run].nReferences)
    ELSE posted[c].references

(* C29: the style references of every studio and model-shot request are    *)
(* the first two background calls that succeeded, in prompt launch order;  *)
(* they are a function of the outcomes of the background calls alone, so   *)
(* the order in which those calls were answered does not show in them.     *)
C29_StyleReferencesInLaunchOrder ==
    \A c \in DOMAIN posted :
        c.kind \in {"studio", "model"} =>
            StylePart(c) = FirstTwo(SucceededInOrder(c.run))

(* The background calls of a run were answered out of launch order, so the *)
(* aggregate on display starts with other assets than the references of    *)
(* the studio and model-shot requests the run has issued.                  *)
C29_Witness ==
    \E c \in DOMAIN posted :
        /\ c.kind = "model"
        /\ runs[c.run].pc = "objects"
        /\ Len(SucceededInOrder(c.run)) = NumBackgrounds
        /\ Range(results.backgroundAssets) = Range(SucceededInOrder(c.run))
        /\ FirstTwo(results.backgroundAssets) # FirstTwo(SucceededInOrder(c.run))
        /\ StylePart(c) = <<BackgroundCall(c.run, 1), BackgroundCall(c.run, 2)>>

----------------------------------------------------------------------------
(* The requests of a run as the server reads them.                         *)

Numeral == <<"0", "1", "2", "3", "4", "5", "6", "7", "8", "9">>

(* The URL a successful call answered with: the public URL of the object   *)
(* the upload or the generation stored, one key per call.                  *)
UrlOf(c) ==
    Str(<<"http", "s://", "pub.r2.dev", "/", c.kind, "/", c.type, "/",
          Numeral[c.run + 1], "-", Numeral[c.idx + 1], "-", Numeral[c.shot + 1]>>)

UrlsOfCalls(calls) == Arr([k \in 1..Len(calls) |-> UrlOf(calls[k])])

(* JSON.stringify({prompt, urls, references, type}) and await req.json()   *)
RequestBody(req) ==
    Body(Str(<<"prompt">>),
         UrlsOfCalls(req.urls),
         IF "references" \in DOMAIN req THEN UrlsOfCalls(req.references)
         ELSE JsUndefined,
         Str(<<req.type>>))

(* The candidate images of runGemini for the request of call c.            *)
Candidates(c) ==
    candidateUrls([prompt |-> enhancedPrompt(RequestBody(posted[c])),
                   images |-> allImages(RequestBody(posted[c]))])

(* Runs in which every upload, studio call and model shot succeeds and any *)
(* number of the background calls fail.                                    *)
InitReferences ==
    InitWith({[fails |-> NumBackgrounds, delays |-> 0, events |-> 0]})

NextReferences ==
    \/ handleGenerate
    \/ UploadSettles(Head(queue), "ok")
    \/ \E o \in {"ok", "fail"} : BackgroundSettles(Head(queue), o)
    \/ StudioSettles(Head(queue), "ok")
    \/ ShotSettles(Head(queue), "ok")
    \/ \E r \in 1..MaxRuns : TimerFires(r)

SpecReferences == InitReferences /\ [][NextReferences]_vars

----------------------------------------------------------------------------
(* Properties of the candidate images of the object stage.                 *)

Primary(c) == UrlOf(UploadCall(c.run, "image", c.idx))

StyleUrls(c) == UrlsOfCalls(FirstTwo(SucceededInOrder(c.run))).a

UserUrls(c) ==
    [k \in 1..runs[c.run].nReferences |-> UrlOf(UploadCall(c.run, "reference", k))]

FirstThreeDistinct(list) ==
    SubSeq(Distinct(list), 1,
           IF Len(Distinct(list)) < 3 THEN Len(Distinct(list)) ELSE 3)

ObjectRequests == {c \in DOMAIN posted : c.kind \in {"studio", "model"}}

(* The statement for studio and model-shot calls alike: the candidates are *)
(* the first three distinct entries of the primary image, the first two    *)
(* successful backgrounds and the user's reference URLs.                   *)
C30_CandidatesOfEveryCall ==
    \A c \in ObjectRequests :
        Candidates(c) =
            FirstThreeDistinct(<<Primary(c)>> \o StyleUrls(c) \o UserUrls(c))

(* C30: the candidates of a model-shot call are the first three distinct   *)
(* entries of the primary image, the first two successful backgrounds and  *)
(* the user's reference URLs, in that order; those of a studio call are    *)
(* the primary image and the first two successful backgrounds.  The        *)
(* primary image is always the first candidate, and a user reference is a  *)
(* candidate only of a model-shot call of a run with fewer than two        *)
(* successful backgrounds.                                                 *)
C30_CandidatesByKind ==
    \A c \in ObjectRequests :
        /\ Candidates(c) =
              FirstThreeDistinct(<<Primary(c)>> \o StyleUrls(c)
                                 \o (IF c.kind = "model" THEN UserUrls(c)
                                     ELSE <<>>))
        /\ Candidates(c)[1] = Primary(c)
        /\ (Range(Candidates(c)) \cap Range(UserUrls(c)) # {}) =>
              /\ c.kind = "model"
              /\ Len(SucceededInOrder(c.run)) < 2

(* One background of a run with a user reference succeeded: the model      *)
(* shots of image 1 have the image, the background and the reference as    *)
(* candidates, its studio call the image and the background.               *)
C30_Witness ==
    \E r \in 1..Len(runs) :
        /\ runs[r].pc = "objects"
        /\ runs[r].nReferences = 1
        /\ Len(SucceededInOrder(r)) = 1
        /\ StudioCall(r, 1) \in DOMAIN posted
        /\ ShotCall(r, 1, "ear", 1) \in DOMAIN posted
        /\ Candidates(ShotCall(r, 1, "ear", 1)) =
              <<Primary(StudioCall(r, 1))>> \o StyleUrls(StudioCall(r, 1))
              \o UserUrls(StudioCall(r, 1))
        /\ Candidates(StudioCall(r, 1)) =
              <<Primary(StudioCall(r, 1))>> \o StyleUrls(StudioCall(r, 1))

====
